---------------------------- MODULE Spec2Model ----------------------------
(***************************************************************************)
(* Lot matching and gain computation of scripts/tezos_tax_scan_2025.py:    *)
(* build_events (ordering), PriceOracle (daily price, memoised),           *)
(* classify_irs (FIFO lots) and hmrc_pooling_disposals (same-day, 30-day,  *)
(* Section 104 pool), run in the order main() runs them.                   *)
(*                                                                         *)
(* Quantities and prices are integers (a quantity is a number of smallest  *)
(* units), so the tolerance test "x > 1e-12" is "x > 0".  Money that goes  *)
(* through the pool's average cost is an exact fraction <<num, den>>.      *)
(* A timestamp is a number of hours since the start of day 0; the ISO      *)
(* strings of the source are fixed-width, so their order is this order.    *)
(***************************************************************************)
EXTENDS Integers, Sequences, FiniteSets, TLC

\* ---------------------------------------------------------------- bounds
MaxEvents == 3

\* ------------------------------------------------------ program constants
HoursPerDay == 24
WindowDays == 30

\* ------------------------------------------------------------ input sets
Days == {0, 1}
Hours == {9, 17}
Timestamps == {d * HoursPerDay + h : d \in Days, h \in Hours}
Directions == {"in", "out"}
Quantities == {1, 2}
Prices == {1, 2}

VARIABLES
    raw,            \* build_events: the list before its sort
    events,         \* build_events: the list it returns
    market,         \* what the price service answers for each day
    no_prices,      \* main: the --no-prices flag
    pc,             \* main: which call is running
    i,              \* index of the next event of the running loop
    usd_cache,      \* usd_oracle.cache
    gbp_cache,      \* gbp_oracle.cache
    xtz_lots,       \* classify_irs: the FIFO queue
    ledger,         \* classify_irs: ledger rows
    irs_disposals,  \* classify_irs: disposal rows
    xtz_events,     \* hmrc_pooling_disposals: filtered, sorted events
    acq_by_day,     \* hmrc_pooling_disposals: day buckets
    future_acqs,    \* hmrc_pooling_disposals: 30-day lookahead list
    pool_qty,       \* hmrc_pooling_disposals: Section 104 pool quantity
    pool_cost_gbp,  \* hmrc_pooling_disposals: Section 104 pool cost
    hmrc_disposals, \* hmrc_pooling_disposals: disposal rows
    run,            \* how many times the engines were called on the events
    first_irs,      \* what classify_irs returned the first time
    first_hmrc,     \* what hmrc_pooling_disposals returned the first time
    first_left      \* the lots, buckets, lookahead list and pool of the first time

vars == <<raw, events, market, no_prices, pc, i, usd_cache, gbp_cache,
          xtz_lots, ledger, irs_disposals, xtz_events, acq_by_day,
          future_acqs, pool_qty, pool_cost_gbp, hmrc_disposals,
          run, first_irs, first_hmrc, first_left>>

irsVars == <<xtz_lots, ledger, irs_disposals, usd_cache>>
hmrcVars == <<xtz_events, acq_by_day, future_acqs, pool_qty, pool_cost_gbp,
              hmrc_disposals, gbp_cache>>
inputVars == <<raw, market, no_prices>>
runVars == <<run, first_irs, first_hmrc, first_left>>

\* ------------------------------------------------------------- fractions
Abs(n) == IF n < 0 THEN -n ELSE n

Min(a, b) == IF a <= b THEN a ELSE b

RECURSIVE Gcd(_, _)
Gcd(a, b) == IF b = 0 THEN a ELSE Gcd(b, a % b)

\* the fraction n/d in lowest terms with a positive denominator
Frac(n, d) ==
    LET s == IF d < 0 THEN -1 ELSE 1
        g == Gcd(Abs(n), Abs(d))
    IN  <<(s * n) \div g, (s * d) \div g>>

FInt(n) == <<n, 1>>
FAdd(x, y) == Frac(x[1] * y[2] + y[1] * x[2], x[2] * y[2])
FSub(x, y) == Frac(x[1] * y[2] - y[1] * x[2], x[2] * y[2])
FMul(x, y) == Frac(x[1] * y[1], x[2] * y[2])
FDiv(x, y) == Frac(x[1] * y[2], x[2] * y[1])
FNonNeg(x) == x[1] >= 0

\* ------------------------------------------------------------ sequences
RECURSIVE SumSeq(_)
SumSeq(s) == IF s = <<>> THEN 0 ELSE Head(s) + SumSeq(Tail(s))

\* sum(u["take_qty"] for u in used)
SumTake(used) == SumSeq([k \in 1..Len(used) |-> used[k].take_qty])

RECURSIVE InsertByTimestampBeforeEqual(_, _)
\* InsertByTimestamp putting e in front of the elements with its key
InsertByTimestampBeforeEqual(s, e) ==
    IF s = <<>> THEN <<e>>
    ELSE IF Head(s).timestamp < e.timestamp
         THEN <<Head(s)>> \o InsertByTimestampBeforeEqual(Tail(s), e)
         ELSE <<e>> \o s

RECURSIVE InsertByTimestamp(_, _)
\* e goes behind every element whose key is not greater: equal keys keep
\* their order
InsertByTimestamp(s, e) ==
    IF s = <<>> THEN <<e>>
    ELSE IF Head(s).timestamp <= e.timestamp
         THEN <<Head(s)>> \o InsertByTimestamp(Tail(s), e)
         ELSE <<e>> \o s

RECURSIVE SortByTimestamp(_)
\* list.sort(key=lambda e: e.timestamp): ascending and stable
SortByTimestamp(s) ==
    IF s = <<>> THEN <<>>
    ELSE InsertByTimestamp(SortByTimestamp(SubSeq(s, 1, Len(s) - 1)), s[Len(s)])

IsSorted(s) == \A k \in 1..(Len(s) - 1) : s[k].timestamp <= s[k + 1].timestamp

\* dt.strftime("%Y-%m-%d"): the calendar day of a timestamp
DayOf(ts) == ts \div HoursPerDay

\* ----------------------------------------------------------- PriceOracle
\* what the price service can answer for a day: a price, a document
\* without a price for the currency, or a request that raises
Priced(p) == [kind |-> "price", value |-> p]
NoPrice == [kind |-> "none", value |-> 0]
RequestFails == [kind |-> "error", value |-> 0]

\* xtz_price_on_date asking the service at every call
xtz_price_on_date_uncached(cache, day) ==
    IF market[day].kind = "error"
    THEN [raised |-> TRUE, price |-> 0, cache |-> cache]
    ELSE LET price == IF market[day].kind = "none" THEN 0 ELSE market[day].value
         IN  [raised |-> FALSE, price |-> price,
              cache |-> [d \in DOMAIN cache \cup {day} |->
                            IF d = day THEN price ELSE cache[d]]]

\* PriceOracle.xtz_price_on_date: the cached value, else the service's
\* answer; an answer without a price for the currency becomes 0.0 and is
\* cached; a request that raises leaves the cache alone and propagates.
xtz_price_on_date(cache, day) ==
    IF day \in DOMAIN cache
    THEN [raised |-> FALSE, price |-> cache[day], cache |-> cache]
    ELSE IF market[day].kind = "error"
    THEN [raised |-> TRUE, price |-> 0, cache |-> cache]
    ELSE LET price == IF market[day].kind = "none" THEN 0 ELSE market[day].value
         IN  [raised |-> FALSE, price |-> price,
              cache |-> [d \in DOMAIN cache \cup {day} |->
                            IF d = day THEN price ELSE cache[d]]]

\* xtz_fmv keeping one price for each timestamp instead of each day
xtz_fmv_per_timestamp(cache, ts) ==
    IF no_prices
    THEN [raised |-> FALSE, price |-> 0, cache |-> cache]
    ELSE IF ts \in DOMAIN cache
    THEN [raised |-> FALSE, price |-> cache[ts], cache |-> cache]
    ELSE IF market[DayOf(ts)].kind = "error"
    THEN [raised |-> TRUE, price |-> 0, cache |-> cache]
    ELSE LET price == IF market[DayOf(ts)].kind = "none" THEN 0
                      ELSE market[DayOf(ts)].value
         IN  [raised |-> FALSE, price |-> price,
              cache |-> [t \in DOMAIN cache \cup {ts} |->
                            IF t = ts THEN price ELSE cache[t]]]

\* PriceOracle.xtz_fmv, or the stub main installs under --no-prices
xtz_fmv(cache, ts) ==
    IF no_prices
    THEN [raised |-> FALSE, price |-> 0, cache |-> cache]
    ELSE xtz_price_on_date(cache, DayOf(ts))

\* ---------------------------------------------------------- build_events
BuildEvents ==
    /\ pc = "build"
    /\ events' = SortByTimestamp(raw)
    /\ pc' = "irs"
    /\ i' = 1
    /\ UNCHANGED <<inputVars, runVars, irsVars, hmrcVars>>

\* ---------------------------------------------------------- classify_irs
RECURSIVE FifoConsumeDropsRemainder(_, _, _, _)
\* FifoConsume with the head lot popped after every take, emptied or not
FifoConsumeDropsRemainder(lots, qty, basis, details) ==
    IF qty > 0 /\ lots # <<>>
    THEN LET lot == lots[1]
             take == Min(qty, lot.qty)
         IN  FifoConsumeDropsRemainder(
                 Tail(lots),
                 qty - take,
                 basis + take * lot.basis_per,
                 Append(details, [from_lot_acquired_ts |-> lot.acquired_ts,
                                  take_qty |-> take,
                                  basis_per_usd |-> lot.basis_per]))
    ELSE [lots |-> lots, basis |-> basis, details |-> details]

RECURSIVE FifoConsumeNewestFirst(_, _, _, _)
\* FifoConsume taking from the tail of the queue (pop() for pop(0))
FifoConsumeNewestFirst(lots, qty, basis, details) ==
    IF qty > 0 /\ lots # <<>>
    THEN LET n == Len(lots)
             lot == lots[n]
             take == Min(qty, lot.qty)
             left == lot.qty - take
         IN  FifoConsumeNewestFirst(
                 IF left <= 0 THEN SubSeq(lots, 1, n - 1)
                 ELSE [lots EXCEPT ![n].qty = left],
                 qty - take,
                 basis + take * lot.basis_per,
                 Append(details, [from_lot_acquired_ts |-> lot.acquired_ts,
                                  take_qty |-> take,
                                  basis_per_usd |-> lot.basis_per]))
    ELSE [lots |-> lots, basis |-> basis, details |-> details]

RECURSIVE FifoConsumeChargesShortfall(_, _, _, _)
\* FifoConsume charging what the lots could not cover at the unit cost of
\* the last lot taken from
FifoConsumeChargesShortfall(lots, qty, basis, details) ==
    IF qty > 0 /\ lots # <<>>
    THEN LET lot == Head(lots)
             take == Min(qty, lot.qty)
             left == lot.qty - take
         IN  FifoConsumeChargesShortfall(
                 IF left <= 0 THEN Tail(lots)
                 ELSE [lots EXCEPT ![1].qty = left],
                 qty - take,
                 basis + take * lot.basis_per,
                 Append(details, [from_lot_acquired_ts |-> lot.acquired_ts,
                                  take_qty |-> take,
                                  basis_per_usd |-> lot.basis_per]))
    ELSE [lots |-> lots,
          basis |-> IF qty > 0 /\ details # <<>>
                    THEN basis + qty * details[Len(details)].basis_per_usd
                    ELSE basis,
          details |-> details]

RECURSIVE FifoConsumeRequeuesHead(_, _, _, _)
\* FifoConsume putting a lot it has taken a part of behind the other lots
FifoConsumeRequeuesHead(lots, qty, basis, details) ==
    IF qty > 0 /\ lots # <<>>
    THEN LET lot == Head(lots)
             take == Min(qty, lot.qty)
             left == lot.qty - take
         IN  FifoConsumeRequeuesHead(
                 IF left <= 0 THEN Tail(lots)
                 ELSE Append(Tail(lots), [lot EXCEPT !.qty = left]),
                 qty - take,
                 basis + take * lot.basis_per,
                 Append(details, [from_lot_acquired_ts |-> lot.acquired_ts,
                                  take_qty |-> take,
                                  basis_per_usd |-> lot.basis_per]))
    ELSE [lots |-> lots, basis |-> basis, details |-> details]

RECURSIVE FifoConsume(_, _, _, _)
\* the while loop of a disposal: lots is the queue, qty what is still to
\* dispose, basis and details what has been accumulated
FifoConsume(lots, qty, basis, details) ==
    IF qty > 0 /\ lots # <<>>
    THEN LET lot == lots[1]
             take == Min(qty, lot.qty)
             left == lot.qty - take
         IN  FifoConsume(
                 IF left <= 0 THEN Tail(lots)
                 ELSE <<[lot EXCEPT !.qty = left]>> \o Tail(lots),
                 qty - take,
                 basis + take * lot.basis_per,
                 Append(details, [from_lot_acquired_ts |-> lot.acquired_ts,
                                  take_qty |-> take,
                                  basis_per_usd |-> lot.basis_per]))
    ELSE [lots |-> lots, basis |-> basis, details |-> details]

IrsCategory(e) ==
    IF e.asset = "XTZ"
    THEN IF e.direction = "in" /\ e.quantity > 0
         THEN "acquisition_or_income_review"
         ELSE IF e.direction = "out" /\ e.quantity > 0
              THEN "disposal_capital"
              ELSE "review"
    ELSE IF e.direction = "out" THEN "token_disposal_review"
         ELSE "token_acquisition_or_income_review"

\* ClassifyIrsStep without the tests of the asset
ClassifyIrsStepAnyAsset ==
    /\ pc = "irs"
    /\ i <= Len(events)
    /\ LET e == events[i]
           look == xtz_fmv(usd_cache, e.timestamp)
           fmv_usd == look.price
       IN  IF look.raised
           THEN /\ pc' = "aborted"
                /\ UNCHANGED <<i, irsVars>>
           ELSE /\ usd_cache' = look.cache
                /\ ledger' = Append(ledger, [timestamp |-> e.timestamp,
                                             op_hash |-> e.op_hash,
                                             direction |-> e.direction,
                                             asset |-> e.asset,
                                             quantity |-> e.quantity,
                                             irs_category |-> IrsCategory(e)])
                /\ i' = i + 1
                /\ pc' = pc
                /\ IF e.direction = "in" /\ e.quantity > 0
                   THEN /\ xtz_lots' = Append(xtz_lots,
                                              [acquired_ts |-> e.timestamp,
                                               qty |-> e.quantity,
                                               basis_per |-> fmv_usd])
                        /\ UNCHANGED irs_disposals
                   ELSE IF e.direction = "out" /\ e.quantity > 0
                   THEN LET proceeds == e.quantity * fmv_usd
                            r == FifoConsume(xtz_lots, e.quantity, 0, <<>>)
                        IN  /\ xtz_lots' = r.lots
                            /\ irs_disposals' = Append(irs_disposals,
                                   [timestamp |-> e.timestamp,
                                    qty_disposed |-> e.quantity,
                                    fmv_usd_per_xtz_used |-> fmv_usd,
                                    proceeds_usd_est |-> proceeds,
                                    basis_usd_fifo_est |-> r.basis,
                                    gain_usd_est |-> proceeds - r.basis,
                                    op_hash |-> e.op_hash,
                                    lot_breakdown |-> r.details])
                   ELSE UNCHANGED <<xtz_lots, irs_disposals>>
    /\ UNCHANGED <<inputVars, runVars, events, hmrcVars>>


\* one iteration of "for e in events" of classify_irs
ClassifyIrsStep ==
    /\ pc = "irs"
    /\ i <= Len(events)
    /\ LET e == events[i]
           look == IF e.asset = "XTZ" THEN xtz_fmv(usd_cache, e.timestamp)
                   ELSE [raised |-> FALSE, price |-> 0, cache |-> usd_cache]
           fmv_usd == look.price
       IN  IF look.raised
           THEN /\ pc' = "aborted"
                /\ UNCHANGED <<i, irsVars>>
           ELSE /\ usd_cache' = look.cache
                /\ ledger' = Append(ledger, [timestamp |-> e.timestamp,
                                             op_hash |-> e.op_hash,
                                             direction |-> e.direction,
                                             asset |-> e.asset,
                                             quantity |-> e.quantity,
                                             irs_category |-> IrsCategory(e)])
                /\ i' = i + 1
                /\ pc' = pc
                /\ IF e.asset = "XTZ" /\ e.direction = "in" /\ e.quantity > 0
                   THEN /\ xtz_lots' = Append(xtz_lots,
                                              [acquired_ts |-> e.timestamp,
                                               qty |-> e.quantity,
                                               basis_per |-> fmv_usd])
                        /\ UNCHANGED irs_disposals
                   ELSE IF e.asset = "XTZ" /\ e.direction = "out" /\ e.quantity > 0
                   THEN LET proceeds == e.quantity * fmv_usd
                            r == FifoConsume(xtz_lots, e.quantity, 0, <<>>)
                        IN  /\ xtz_lots' = r.lots
                            /\ irs_disposals' = Append(irs_disposals,
                                   [timestamp |-> e.timestamp,
                                    qty_disposed |-> e.quantity,
                                    fmv_usd_per_xtz_used |-> fmv_usd,
                                    proceeds_usd_est |-> proceeds,
                                    basis_usd_fifo_est |-> r.basis,
                                    gain_usd_est |-> proceeds - r.basis,
                                    op_hash |-> e.op_hash,
                                    lot_breakdown |-> r.details])
                   ELSE UNCHANGED <<xtz_lots, irs_disposals>>
    /\ UNCHANGED <<inputVars, runVars, events, hmrcVars>>

\* HmrcStart with the locals of hmrc_pooling_disposals kept from one call
\* to the next
HmrcStartKeepsLocals ==
    /\ pc = "irs"
    /\ i > Len(events)
    /\ xtz_events' = SortByTimestamp(
                        SelectSeq(events, LAMBDA e : e.asset = "XTZ" /\ e.quantity > 0))
    /\ pc' = "hmrc_index"
    /\ i' = 1
    /\ UNCHANGED <<inputVars, runVars, events, irsVars, acq_by_day, future_acqs,
                   pool_qty, pool_cost_gbp, hmrc_disposals, gbp_cache>>

\* HmrcStart with a filter that keeps the events of quantity 0
HmrcStartKeepsZero ==
    /\ pc = "irs"
    /\ i > Len(events)
    /\ acq_by_day' = <<>>
    /\ future_acqs' = <<>>
    /\ pool_qty' = 0
    /\ pool_cost_gbp' = FInt(0)
    /\ hmrc_disposals' = <<>>
    /\ xtz_events' = SortByTimestamp(SelectSeq(events, LAMBDA e : e.asset = "XTZ"))
    /\ pc' = "hmrc_index"
    /\ i' = 1
    /\ UNCHANGED <<inputVars, runVars, events, irsVars, gbp_cache>>

\* HmrcStart with a filter that keeps the events of other assets
HmrcStartKeepsTokens ==
    /\ pc = "irs"
    /\ i > Len(events)
    /\ acq_by_day' = <<>>
    /\ future_acqs' = <<>>
    /\ pool_qty' = 0
    /\ pool_cost_gbp' = FInt(0)
    /\ hmrc_disposals' = <<>>
    /\ xtz_events' = SortByTimestamp(SelectSeq(events, LAMBDA e : e.quantity > 0))
    /\ pc' = "hmrc_index"
    /\ i' = 1
    /\ UNCHANGED <<inputVars, runVars, events, irsVars, gbp_cache>>

\* classify_irs returns; hmrc_pooling_disposals is called: it creates its
\* locals, then filters and sorts its own copy of the events
HmrcStart ==
    /\ pc = "irs"
    /\ i > Len(events)
    /\ acq_by_day' = <<>>
    /\ future_acqs' = <<>>
    /\ pool_qty' = 0
    /\ pool_cost_gbp' = FInt(0)
    /\ hmrc_disposals' = <<>>
    /\ xtz_events' = SortByTimestamp(
                        SelectSeq(events, LAMBDA e : e.asset = "XTZ" /\ e.quantity > 0))
    /\ pc' = "hmrc_index"
    /\ i' = 1
    /\ UNCHANGED <<inputVars, runVars, events, irsVars, gbp_cache>>

\* ------------------------------------------------ hmrc_pooling_disposals
\* one iteration of the first pass: record an acquisition in its day
\* bucket and, as a separate tuple, in the lookahead list
HmrcIndexStep ==
    /\ pc = "hmrc_index"
    /\ i <= Len(xtz_events)
    /\ LET e == xtz_events[i]
           day == DayOf(e.timestamp)
           look == xtz_fmv(gbp_cache, e.timestamp)
           fmv_gbp == look.price
           bucket == IF day \in DOMAIN acq_by_day THEN acq_by_day[day] ELSE <<>>
           rec == [ts |-> e.timestamp, qty |-> e.quantity, cost_per |-> fmv_gbp]
       IN  IF look.raised
           THEN /\ pc' = "aborted"
                /\ UNCHANGED <<i, gbp_cache, acq_by_day, future_acqs>>
           ELSE /\ gbp_cache' = look.cache
                /\ i' = i + 1
                /\ pc' = pc
                /\ IF e.direction = "in"
                   THEN /\ acq_by_day' = [d \in DOMAIN acq_by_day \cup {day} |->
                                            IF d = day THEN Append(bucket, rec)
                                            ELSE acq_by_day[d]]
                        /\ future_acqs' = Append(future_acqs,
                                            [dt |-> e.timestamp, qty |-> e.quantity,
                                             cost_per |-> fmv_gbp, ts |-> e.timestamp])
                   ELSE UNCHANGED <<acq_by_day, future_acqs>>
    /\ UNCHANGED <<inputVars, runVars, events, irsVars, xtz_events, pool_qty,
                   pool_cost_gbp, hmrc_disposals>>

\* the first pass is over; the second pass starts at the first event
HmrcIndexDone ==
    /\ pc = "hmrc_index"
    /\ i > Len(xtz_events)
    /\ pc' = "hmrc"
    /\ i' = 1
    /\ UNCHANGED <<inputVars, runVars, events, irsVars, hmrcVars>>

\* ConsumeLoop leaving the loop after the first record it takes from
ConsumeLoopFirstOnly(lst, k, qty_needed, cost, used) ==
    IF qty_needed > 0 /\ k <= Len(lst)
    THEN LET rec == lst[k]
             take == Min(qty_needed, rec.qty)
         IN  [lst |-> [lst EXCEPT ![k].qty = rec.qty - take],
              cost |-> cost + take * rec.cost_per,
              used |-> Append(used, [from_acq_ts |-> rec.ts, take_qty |-> take,
                                     cost_per_gbp |-> rec.cost_per])]
    ELSE [lst |-> lst, cost |-> cost, used |-> used]

RECURSIVE ConsumeLoop(_, _, _, _, _)
\* the while loop of consume_from_list, from index k on
ConsumeLoop(lst, k, qty_needed, cost, used) ==
    IF qty_needed > 0 /\ k <= Len(lst)
    THEN LET rec == lst[k]
             take == Min(qty_needed, rec.qty)
             lst2 == [lst EXCEPT ![k].qty = rec.qty - take]
             used2 == Append(used, [from_acq_ts |-> rec.ts, take_qty |-> take,
                                    cost_per_gbp |-> rec.cost_per])
         IN  IF rec.qty - take <= 0
             THEN ConsumeLoop(lst2, k + 1, qty_needed - take,
                              cost + take * rec.cost_per, used2)
             ELSE [lst |-> lst2, cost |-> cost + take * rec.cost_per, used |-> used2]
    ELSE [lst |-> lst, cost |-> cost, used |-> used]

\* consume_from_list: the loop, then the records it emptied are dropped
\* from the list in place
consume_from_list(lst, qty_needed) ==
    LET r == ConsumeLoop(lst, 1, qty_needed, 0, <<>>)
    IN  [lst |-> SelectSeq(r.lst, LAMBDA x : x.qty > 0),
         cost |-> r.cost, used |-> r.used]

\* (adt - dt).days: whole 24-hour periods between the two instants
ElapsedDays(adt, dt) == (adt - dt) \div HoursPerDay

\* the test of the 30-day step on one lookahead tuple
Eligible(a, dt) ==
    a.dt > dt /\ ElapsedDays(a.dt, dt) <= WindowDays /\ a.qty > 0

RECURSIVE InsertByDt(_, _)
InsertByDt(s, a) ==
    IF s = <<>> THEN <<a>>
    ELSE IF Head(s).dt <= a.dt THEN <<Head(s)>> \o InsertByDt(Tail(s), a)
         ELSE <<a>> \o s

RECURSIVE SortByDt(_)
\* thirty.sort(key=lambda x: x[0]): ascending and stable
SortByDt(s) ==
    IF s = <<>> THEN <<>>
    ELSE InsertByDt(SortByDt(SubSeq(s, 1, Len(s) - 1)), s[Len(s)])

\* the index of the first tuple of the lookahead list with timestamp ts
\* (0 when there is none)
FirstWithTs(fa, ts) ==
    IF \E k \in 1..Len(fa) : fa[k].ts = ts
    THEN CHOOSE k \in 1..Len(fa) :
             fa[k].ts = ts /\ \A j \in 1..(k - 1) : fa[j].ts # ts
    ELSE 0

\* the write-back after a 30-day match: the first tuple whose timestamp
\* equals the matched record's is debited
WriteBack(fa, ts, take) ==
    LET k == FirstWithTs(fa, ts)
    IN  IF k = 0 THEN fa ELSE [fa EXCEPT ![k].qty = fa[k].qty - take]

RECURSIVE ThirtyLoopKeepsQtyLeft(_, _, _, _, _, _)
\* ThirtyLoop without "qty_left -= take"
ThirtyLoopKeepsQtyLeft(thirty, k, qty_left, cost, used, fa) ==
    IF k <= Len(thirty) /\ qty_left > 0
    THEN LET rec == thirty[k]
             take == Min(qty_left, rec.qty)
         IN  ThirtyLoopKeepsQtyLeft(thirty, k + 1, qty_left,
                        cost + take * rec.cost_per,
                        Append(used, [from_acq_ts |-> rec.ts, take_qty |-> take,
                                      cost_per_gbp |-> rec.cost_per,
                                      rule |-> "30-day"]),
                        WriteBack(fa, rec.ts, take))
    ELSE [qty_left |-> qty_left, cost |-> cost, used |-> used, fa |-> fa]

RECURSIVE ThirtyLoop(_, _, _, _, _, _)
\* "for rec in thirty", from index k on; thirty holds copies made before
\* the loop, fa is future_acqs
ThirtyLoop(thirty, k, qty_left, cost, used, fa) ==
    IF k <= Len(thirty) /\ qty_left > 0
    THEN LET rec == thirty[k]
             take == Min(qty_left, rec.qty)
         IN  ThirtyLoop(thirty, k + 1, qty_left - take,
                        cost + take * rec.cost_per,
                        Append(used, [from_acq_ts |-> rec.ts, take_qty |-> take,
                                      cost_per_gbp |-> rec.cost_per,
                                      rule |-> "30-day"]),
                        WriteBack(fa, rec.ts, take))
    ELSE [qty_left |-> qty_left, cost |-> cost, used |-> used, fa |-> fa]

\* step 2 of a disposal at dt with qty_left still unmatched
ThirtyDayMatch(fa, dt, qty_left, cost, used) ==
    IF qty_left > 0
    THEN ThirtyLoop(SortByDt(SelectSeq(fa, LAMBDA a : Eligible(a, dt))),
                    1, qty_left, cost, used, fa)
    ELSE [qty_left |-> qty_left, cost |-> cost, used |-> used, fa |-> fa]

\* PoolMatch without the test that something is left to match
PoolMatchUnguarded(qty_left, pq, pc_gbp) ==
    IF pq <= 0
    THEN [pool_cost |-> FInt(0), pool_used |-> <<>>,
          pool_qty |-> pq, pool_cost_gbp |-> pc_gbp]
    ELSE LET avg_cost == FDiv(pc_gbp, FInt(pq))
             pool_cost == FMul(FInt(qty_left), avg_cost)
         IN  [pool_cost |-> pool_cost,
              pool_used |-> <<[take_qty |-> qty_left,
                               avg_cost_per_gbp |-> avg_cost,
                               rule |-> "S104"]>>,
              pool_qty |-> pq - qty_left,
              pool_cost_gbp |-> FSub(pc_gbp, pool_cost)]

\* PoolMatch debiting the pool when it is empty as well
PoolMatchDebitsEmpty(qty_left, pq, pc_gbp) ==
    IF qty_left > 0
    THEN IF pq <= 0
         THEN [pool_cost |-> FInt(0), pool_used |-> <<>>,
               pool_qty |-> pq - qty_left, pool_cost_gbp |-> pc_gbp]
         ELSE LET avg_cost == FDiv(pc_gbp, FInt(pq))
                  pool_cost == FMul(FInt(qty_left), avg_cost)
              IN  [pool_cost |-> pool_cost,
                   pool_used |-> <<[take_qty |-> qty_left,
                                    avg_cost_per_gbp |-> avg_cost,
                                    rule |-> "S104"]>>,
                   pool_qty |-> pq - qty_left,
                   pool_cost_gbp |-> FSub(pc_gbp, pool_cost)]
    ELSE [pool_cost |-> FInt(0), pool_used |-> <<>>,
          pool_qty |-> pq, pool_cost_gbp |-> pc_gbp]

\* step 3 of a disposal: the Section 104 pool takes what is left
PoolMatch(qty_left, pq, pc_gbp) ==
    IF qty_left > 0
    THEN IF pq <= 0
         THEN [pool_cost |-> FInt(0), pool_used |-> <<>>,
               pool_qty |-> pq, pool_cost_gbp |-> pc_gbp]
         ELSE LET avg_cost == FDiv(pc_gbp, FInt(pq))
                  pool_cost == FMul(FInt(qty_left), avg_cost)
              IN  [pool_cost |-> pool_cost,
                   pool_used |-> <<[take_qty |-> qty_left,
                                    avg_cost_per_gbp |-> avg_cost,
                                    rule |-> "S104"]>>,
                   pool_qty |-> pq - qty_left,
                   pool_cost_gbp |-> FSub(pc_gbp, pool_cost)]
    ELSE [pool_cost |-> FInt(0), pool_used |-> <<>>,
          pool_qty |-> pq, pool_cost_gbp |-> pc_gbp]

\* one iteration of the second pass
HmrcStep ==
    /\ pc = "hmrc"
    /\ i <= Len(xtz_events)
    /\ LET e == xtz_events[i]
           dt == e.timestamp
           day == DayOf(dt)
           look == xtz_fmv(gbp_cache, dt)
           fmv_gbp == look.price
       IN  IF look.raised
           THEN /\ pc' = "aborted"
                /\ UNCHANGED <<i, gbp_cache, acq_by_day, future_acqs, pool_qty,
                               pool_cost_gbp, hmrc_disposals>>
           ELSE /\ gbp_cache' = look.cache
                /\ i' = i + 1
                /\ pc' = pc
                /\ IF e.direction = "in"
                   THEN /\ pool_qty' = pool_qty + e.quantity
                        /\ pool_cost_gbp' = FAdd(pool_cost_gbp, FInt(e.quantity * fmv_gbp))
                        /\ UNCHANGED <<acq_by_day, future_acqs, hmrc_disposals>>
                   ELSE LET qty == e.quantity
                            proceeds == qty * fmv_gbp
                            same_day_list == IF day \in DOMAIN acq_by_day
                                             THEN acq_by_day[day] ELSE <<>>
                            sd == consume_from_list(same_day_list, qty)
                            qty_left == qty - SumTake(sd.used)
                            th == ThirtyDayMatch(future_acqs, dt, qty_left,
                                                 sd.cost, sd.used)
                            pl == PoolMatch(th.qty_left, pool_qty, pool_cost_gbp)
                            cost_total == FAdd(FInt(th.cost), pl.pool_cost)
                        IN  /\ acq_by_day' = IF day \in DOMAIN acq_by_day
                                             THEN [acq_by_day EXCEPT ![day] = sd.lst]
                                             ELSE acq_by_day
                            /\ future_acqs' = th.fa
                            /\ pool_qty' = pl.pool_qty
                            /\ pool_cost_gbp' = pl.pool_cost_gbp
                            /\ hmrc_disposals' = Append(hmrc_disposals,
                                   [timestamp |-> e.timestamp,
                                    qty_disposed |-> qty,
                                    fmv_gbp_per_xtz_used |-> fmv_gbp,
                                    proceeds_gbp_est |-> proceeds,
                                    allowable_cost_gbp_est |-> cost_total,
                                    gain_gbp_est |-> FSub(FInt(proceeds), cost_total),
                                    op_hash |-> e.op_hash,
                                    matching_breakdown |-> th.used \o pl.pool_used])
    /\ UNCHANGED <<inputVars, runVars, events, irsVars, xtz_events>>

\* hmrc_pooling_disposals returns and main writes its outputs
HmrcDone ==
    /\ pc = "hmrc"
    /\ i > Len(xtz_events)
    /\ pc' = "done"
    /\ UNCHANGED <<inputVars, runVars, events, i, irsVars, hmrcVars>>

\* what the engines hold when they return, apart from their records
LeftBehind ==
    [xtz_lots |-> xtz_lots, acq_by_day |-> acq_by_day, future_acqs |-> future_acqs,
     pool_qty |-> pool_qty, pool_cost_gbp |-> pool_cost_gbp]

\* both engines have returned; they are called a second time on the same
\* events with the same oracles: classify_irs creates its locals anew, the
\* oracles keep their caches
Rerun ==
    /\ pc = "done"
    /\ run = 1
    /\ first_irs' = irs_disposals
    /\ first_hmrc' = hmrc_disposals
    /\ first_left' = LeftBehind
    /\ run' = 2
    /\ xtz_lots' = <<>>
    /\ ledger' = <<>>
    /\ irs_disposals' = <<>>
    /\ pc' = "irs"
    /\ i' = 1
    /\ UNCHANGED <<inputVars, events, usd_cache, hmrcVars>>

\* both engines have returned; they are called again, with new oracles, on
\* the events without those of other assets than XTZ
RerunWithoutTokens ==
    /\ pc = "done"
    /\ run = 1
    /\ first_irs' = irs_disposals
    /\ first_hmrc' = hmrc_disposals
    /\ first_left' = LeftBehind
    /\ run' = 2
    /\ events' = SelectSeq(events, LAMBDA e : e.asset = "XTZ")
    /\ xtz_lots' = <<>>
    /\ ledger' = <<>>
    /\ irs_disposals' = <<>>
    /\ usd_cache' = <<>>
    /\ gbp_cache' = <<>>
    /\ pc' = "irs"
    /\ i' = 1
    /\ UNCHANGED <<inputVars, xtz_events, acq_by_day, future_acqs, pool_qty,
                   pool_cost_gbp, hmrc_disposals>>

\* ------------------------------------------------------- specifications
\* the shape of an event before it is numbered
EventShapes(stamps, assets, quantities) ==
    [timestamp : stamps, direction : Directions, asset : assets,
     quantity : quantities]

\* the events in discovery order: op_hash is the position in the list
\* main hands to the sort of build_events
Numbered(f) ==
    [k \in DOMAIN f |-> [timestamp |-> f[k].timestamp, direction |-> f[k].direction,
                         asset |-> f[k].asset, quantity |-> f[k].quantity,
                         op_hash |-> k]]

\* the state main is in when it calls build_events
Start(rawEvents, prices, flag) ==
    /\ raw = rawEvents
    /\ market = prices
    /\ no_prices = flag
    /\ events = <<>>
    /\ pc = "build"
    /\ i = 1
    /\ usd_cache = <<>>
    /\ gbp_cache = <<>>
    /\ xtz_lots = <<>>
    /\ ledger = <<>>
    /\ irs_disposals = <<>>
    /\ xtz_events = <<>>
    /\ acq_by_day = <<>>
    /\ future_acqs = <<>>
    /\ pool_qty = 0
    /\ pool_cost_gbp = FInt(0)
    /\ hmrc_disposals = <<>>
    /\ run = 1
    /\ first_irs = <<>>
    /\ first_hmrc = <<>>
    /\ first_left = <<>>

\* XTZ events that arrive in timestamp order, every day priced
Init ==
    \E n \in 0..MaxEvents :
        \E f \in [1..n -> EventShapes(Timestamps, {"XTZ"}, Quantities)] :
            /\ IsSorted(f)
            /\ \E m \in [Days -> {Priced(p) : p \in Prices}] :
                   Start(Numbered(f), m, FALSE)

Next ==
    \/ BuildEvents
    \/ ClassifyIrsStep
    \/ HmrcStart
    \/ HmrcIndexStep
    \/ HmrcIndexDone
    \/ HmrcStep
    \/ HmrcDone

Spec == Init /\ [][Next]_vars

\* the engines are called a second time once both have returned; the price
\* of a day is the same on every request
InitRerun ==
    \E n \in 0..MaxEvents :
        \E f \in [1..n -> EventShapes(Timestamps, {"XTZ"}, Quantities)] :
            /\ IsSorted(f)
            /\ Start(Numbered(f), [d \in Days |-> Priced(d + 1)], FALSE)

NextRerun == Next \/ Rerun

SpecRerun == InitRerun /\ [][NextRerun]_vars

\* events of one day that arrive in any order, many with the same timestamp
InitTies ==
    \E n \in 0..MaxEvents :
        \E f \in [1..n -> EventShapes(Hours, {"XTZ"}, Quantities)] :
            Start(Numbered(f), [d \in Days |-> Priced(1)], FALSE)

SpecTies == InitTies /\ [][Next]_vars

\* events of the first day and of the next morning in timestamp order,
\* some of quantity 0
InitZero ==
    \E n \in 0..MaxEvents :
        \E f \in [1..n -> EventShapes(Hours \cup {HoursPerDay + 9}, {"XTZ"}, {0, 1})] :
            /\ IsSorted(f)
            /\ Start(Numbered(f), [d \in Days |-> Priced(1)], FALSE)

\* the condition under which the second pass has an iteration to run
HmrcStepEnabled == pc = "hmrc" /\ i <= Len(xtz_events)

\* weak fairness of HmrcStep, with its enabling condition written out
HmrcStepFair == []<>(~HmrcStepEnabled) \/ []<><<HmrcStep>>_vars

\* main runs every call to its end: a loop that has an event left runs its
\* next iteration, a call that has returned is followed by the next one
SpecLive ==
    /\ InitZero
    /\ [][Next]_vars
    /\ WF_vars(BuildEvents \/ ClassifyIrsStep \/ HmrcStart \/ HmrcIndexStep
                   \/ HmrcIndexDone \/ HmrcDone)
    /\ HmrcStepFair

\* the price service changes what it answers for a day
MarketMoves ==
    /\ pc \notin {"done", "aborted"}
    /\ \E d \in Days : \E p \in Prices :
           /\ market[d] # Priced(p)
           /\ market' = [market EXCEPT ![d] = Priced(p)]
    /\ UNCHANGED <<raw, no_prices, runVars, events, pc, i, irsVars, hmrcVars>>

\* events in timestamp order while the prices of the service move
InitDrift ==
    \E n \in 0..MaxEvents :
        \E f \in [1..n -> EventShapes(Timestamps, {"XTZ"}, {1})] :
            /\ IsSorted(f)
            /\ Start(Numbered(f), [d \in Days |-> Priced(1)], FALSE)

NextDrift == Next \/ MarketMoves

SpecDrift == InitDrift /\ [][NextDrift]_vars

\* events of 4 or 10 units on the mornings of two days, in timestamp
\* order; the price is 2 on the first day and 5 on the second
InitScenario ==
    \E n \in 0..MaxEvents :
        \E f \in [1..n -> EventShapes({9, HoursPerDay + 9}, {"XTZ"}, {4, 10})] :
            /\ IsSorted(f)
            /\ Start(Numbered(f),
                     [d \in Days |-> IF d = 0 THEN Priced(2) ELSE Priced(5)], FALSE)

SpecScenario == InitScenario /\ [][Next]_vars

\* XTZ and token events on the mornings of two days, in timestamp order,
\* some of quantity 0
InitAssets ==
    \E n \in 0..MaxEvents :
        \E f \in [1..n -> EventShapes({9, HoursPerDay + 9}, {"XTZ", "TOK"}, {0, 1})] :
            /\ IsSorted(f)
            /\ Start(Numbered(f), [d \in Days |-> Priced(d + 1)], FALSE)

SpecAssets == InitAssets /\ [][Next]_vars

NextWithout == Next \/ RerunWithoutTokens

SpecWithout == InitAssets /\ [][NextWithout]_vars

\* days on both sides of the 30-day window, one unit per event, one price
WindowDaySet == {0, WindowDays, WindowDays + 1}
WindowStamps == {d * HoursPerDay + h : d \in WindowDaySet, h \in Hours}

InitWindow ==
    \E n \in 0..(MaxEvents - 1) :
        \E f \in [1..n -> EventShapes(WindowStamps, {"XTZ"}, {1})] :
            /\ IsSorted(f)
            /\ Start(Numbered(f), [d \in WindowDaySet |-> Priced(1)], FALSE)

SpecWindow == InitWindow /\ [][Next]_vars

\* events in any order of discovery, as the concatenation of the two
\* fetched lists is before build_events sorts it
InitRaw ==
    \E n \in 0..MaxEvents :
        \E f \in [1..n -> EventShapes(Timestamps, {"XTZ"}, {1})] :
            Start(Numbered(f), [d \in Days |-> Priced(1)], FALSE)

SpecRaw == InitRaw /\ [][Next]_vars

\* a price service that may have no price for a day or may fail, and the
\* --no-prices flag
InitOracle ==
    \E n \in 0..(MaxEvents - 1) :
        \E f \in [1..n -> EventShapes(Timestamps, {"XTZ"}, {1})] :
            /\ IsSorted(f)
            /\ \E m \in [Days -> {Priced(1), NoPrice, RequestFails}] :
                   \E flag \in BOOLEAN : Start(Numbered(f), m, flag)

SpecOracle == InitOracle /\ [][Next]_vars

\* ------------------------------------------------- reading the records
RECURSIVE Breakdowns(_)
\* the breakdown entries of a list of HMRC disposal rows, in order
Breakdowns(rows) ==
    IF rows = <<>> THEN <<>>
    ELSE Head(rows).matching_breakdown \o Breakdowns(Tail(rows))

RECURSIVE LotBreakdowns(_)
\* the breakdown entries of a list of FIFO disposal rows, in order
LotBreakdowns(rows) ==
    IF rows = <<>> THEN <<>>
    ELSE Head(rows).lot_breakdown \o LotBreakdowns(Tail(rows))

\* an entry that names the acquisition it was taken from (same-day or 30-day)
NamesAcquisition(en) == "from_acq_ts" \in DOMAIN en
Is30Day(en) == NamesAcquisition(en) /\ "rule" \in DOMAIN en
IsSameDay(en) == NamesAcquisition(en) /\ "rule" \notin DOMAIN en
IsPool(en) == ~NamesAcquisition(en)

\* quantity matched, under the same-day and 30-day rules together, to
\* acquisitions with timestamp t
MatchedFrom(t) ==
    SumTake(SelectSeq(Breakdowns(hmrc_disposals),
                      LAMBDA en : NamesAcquisition(en) /\ en.from_acq_ts = t))

\* quantity acquired at timestamp t
AcquiredAt(t) ==
    SumSeq([k \in 1..Len(xtz_events) |->
               IF xtz_events[k].direction = "in" /\ xtz_events[k].timestamp = t
               THEN xtz_events[k].quantity ELSE 0])

AcquisitionStamps ==
    {xtz_events[k].timestamp : k \in {j \in 1..Len(xtz_events) : xtz_events[j].direction = "in"}}

\* ------------------------------------------------------------------ C1
\* C1: the quantity matched to an acquisition under the same-day and the
\* 30-day rules together never exceeds the quantity acquired (here per
\* acquisition timestamp, the key the breakdown records).
C1_NoDoubleSpend ==
    \A t \in AcquisitionStamps : MatchedFrom(t) <= AcquiredAt(t)

\* ------------------------------------------------------------------ C2
\* C2: in every state of a UK run the pool quantity and the pool cost are
\* not negative.
C2_PoolNonNegative ==
    pool_qty >= 0 /\ FNonNeg(pool_cost_gbp)

\* ------------------------------------------------------------------ C3
\* C3: in every disposal record of either engine the quantities taken in
\* the breakdown add up to the quantity disposed.
C3_BreakdownSumsToDisposed ==
    /\ \A k \in 1..Len(irs_disposals) :
           SumTake(irs_disposals[k].lot_breakdown) = irs_disposals[k].qty_disposed
    /\ \A k \in 1..Len(hmrc_disposals) :
           SumTake(hmrc_disposals[k].matching_breakdown) = hmrc_disposals[k].qty_disposed

\* ------------------------------------------------------------------ C4
\* calendar days from the day of dt to the day of adt
CalendarDays(adt, dt) == DayOf(adt) - DayOf(dt)

\* quantity of a disposal row that no same-day or 30-day match covered
Residual(row) ==
    row.qty_disposed - SumTake(SelectSeq(row.matching_breakdown, NamesAcquisition))

\* C4: a 30-day match is made with an acquisition exactly when it is
\* strictly after the disposal and at most 30 calendar days after it: every
\* 30-day entry names such an acquisition, and a disposal leaves a residual
\* only when no such acquisition has quantity left.
C4_ThirtyCalendarDays ==
    \A k \in 1..Len(hmrc_disposals) :
        LET row == hmrc_disposals[k]
        IN  /\ \A j \in 1..Len(row.matching_breakdown) :
                   LET en == row.matching_breakdown[j]
                   IN  Is30Day(en) =>
                           /\ en.from_acq_ts > row.timestamp
                           /\ CalendarDays(en.from_acq_ts, row.timestamp) <= WindowDays
            /\ Residual(row) > 0 =>
                   \A j \in 1..Len(future_acqs) :
                       LET a == future_acqs[j]
                       IN  (a.dt > row.timestamp
                            /\ CalendarDays(a.dt, row.timestamp) <= WindowDays)
                               => a.qty <= 0

\* ------------------------------------------------------------------ C5
\* quantity in the lots still queued
RemainingInLots == SumSeq([k \in 1..Len(xtz_lots) |-> xtz_lots[k].qty])

\* quantity acquired by the events classify_irs has processed
FifoAcquired ==
    SumSeq([k \in 1..Len(ledger) |->
               IF ledger[k].irs_category = "acquisition_or_income_review"
               THEN ledger[k].quantity ELSE 0])

\* quantity disposed by the events classify_irs has processed
FifoDisposed == SumSeq([k \in 1..Len(irs_disposals) |-> irs_disposals[k].qty_disposed])

\* quantity the disposals took out of lots
FifoTaken == SumTake(LotBreakdowns(irs_disposals))

\* C5 as claimed: after any prefix of a FIFO run, remaining + disposed =
\* acquired.
C5_RemainingPlusDisposed ==
    RemainingInLots + FifoDisposed = FifoAcquired

\* C5 as amended: after any prefix of a FIFO run, the quantity remaining in
\* the queued lots plus the quantity the disposals took from lots equals
\* the quantity acquired.
C5_RemainingPlusTaken ==
    RemainingInLots + FifoTaken = FifoAcquired

\* a prefix with an over-disposal behind it and a partly consumed lot queued
C5_Witness ==
    /\ FifoTaken < FifoDisposed
    /\ FifoTaken > 0
    /\ xtz_lots # <<>>

\* ------------------------------------------------------------------ C6
\* the run is one acquisition followed by one disposal of the same quantity
\* on the same calendar day, and the disposal has been processed
SameDayPair ==
    /\ Len(xtz_events) = 2
    /\ xtz_events[1].direction = "in"
    /\ xtz_events[2].direction = "out"
    /\ DayOf(xtz_events[1].timestamp) = DayOf(xtz_events[2].timestamp)
    /\ xtz_events[1].quantity = xtz_events[2].quantity
    /\ pc = "done"

\* the record of the pair: one same-day entry for the whole quantity at the
\* acquisition's unit cost
SameDayPairRecord ==
    LET Q == xtz_events[2].quantity
        unit_cost == future_acqs[1].cost_per
        row == hmrc_disposals[1]
    IN  /\ Len(hmrc_disposals) = 1
        /\ row.matching_breakdown =
               <<[from_acq_ts |-> xtz_events[1].timestamp, take_qty |-> Q,
                  cost_per_gbp |-> unit_cost]>>
        /\ row.proceeds_gbp_est = Q * row.fmv_gbp_per_xtz_used
        /\ row.fmv_gbp_per_xtz_used = market[DayOf(row.timestamp)].value
        /\ row.allowable_cost_gbp_est = FInt(Q * unit_cost)
        /\ row.gain_gbp_est = FInt(row.proceeds_gbp_est - Q * unit_cost)

\* C6 as claimed: the pair is matched wholly same-day and the pool ends the
\* run at quantity 0.
C6_SameDayPairPoolEmpty ==
    SameDayPair => (SameDayPairRecord /\ pool_qty = 0)

\* C6 as amended: the pair is matched wholly same-day and the pool, which
\* the acquisition credited and the disposal did not debit, ends the run
\* at quantity Q and cost Q x the acquisition's unit cost.
C6_SameDayPairPoolKeepsCredit ==
    SameDayPair =>
        /\ SameDayPairRecord
        /\ pool_qty = xtz_events[1].quantity
        /\ pool_cost_gbp = FInt(xtz_events[1].quantity * future_acqs[1].cost_per)

C6_Witness ==
    SameDayPair /\ xtz_events[1].quantity = 2 /\ hmrc_disposals # <<>>

\* ------------------------------------------------------------------ C7
\* a FIFO breakdown entry for a shortfall: no source lot, unit cost 0
FifoShortfallEntry(en, q) ==
    /\ "from_lot_acquired_ts" \notin DOMAIN en
    /\ en.take_qty = q
    /\ en.basis_per_usd = 0

\* a UK breakdown entry for a shortfall: no source acquisition, unit cost 0
HmrcShortfallEntry(en, q) ==
    /\ IsPool(en)
    /\ en.take_qty = q
    /\ en.avg_cost_per_gbp = FInt(0)

\* quantity of a FIFO row that no lot supplied
FifoShortfall(row) ==
    row.qty_disposed
        - SumTake(SelectSeq(row.lot_breakdown,
                            LAMBDA en : "from_lot_acquired_ts" \in DOMAIN en))

\* quantity of a UK row that neither an acquisition nor a pool holding
\* supplied
HmrcShortfall(row) ==
    row.qty_disposed
        - SumTake(SelectSeq(row.matching_breakdown,
                            LAMBDA en : NamesAcquisition(en)
                                        \/ en.avg_cost_per_gbp # FInt(0)))

\* C7: a disposal record whose quantity exceeds what the queue (FIFO) or
\* the matches and the pool (UK) supplied has a breakdown entry for the
\* shortfall with unit cost 0 and no source.
C7_ShortfallEntry ==
    /\ \A k \in 1..Len(irs_disposals) :
           LET row == irs_disposals[k]
           IN  FifoShortfall(row) > 0 =>
                   \E j \in 1..Len(row.lot_breakdown) :
                       FifoShortfallEntry(row.lot_breakdown[j], FifoShortfall(row))
    /\ \A k \in 1..Len(hmrc_disposals) :
           LET row == hmrc_disposals[k]
           IN  HmrcShortfall(row) > 0 =>
                   \E j \in 1..Len(row.matching_breakdown) :
                       HmrcShortfallEntry(row.matching_breakdown[j], HmrcShortfall(row))

\* ------------------------------------------------------------------ C8
\* C8: a run whose event sequence is not in ascending timestamp order is
\* rejected: it produces no disposal record and does not complete.
C8_UnsortedRejected ==
    ~IsSorted(raw) =>
        /\ irs_disposals = <<>>
        /\ hmrc_disposals = <<>>
        /\ pc # "done"

\* ------------------------------------------------------------------ C9
\* the price service has a price for the day of ts
HasPrice(ts) == market[DayOf(ts)].kind = "price"

\* C9: unless prices were switched off on the command line, no lot, day
\* bucket or lookahead entry, pool credit or disposal record exists for an
\* event whose day has no price: the run aborted instead.
C9_NoDefaultPrice ==
    ~no_prices =>
        /\ \A k \in 1..Len(xtz_lots) : HasPrice(xtz_lots[k].acquired_ts)
        /\ \A k \in 1..Len(irs_disposals) : HasPrice(irs_disposals[k].timestamp)
        /\ \A k \in 1..Len(future_acqs) : HasPrice(future_acqs[k].ts)
        /\ \A k \in 1..Len(hmrc_disposals) : HasPrice(hmrc_disposals[k].timestamp)
        /\ (pc = "hmrc" \/ pc = "done") =>
               \A k \in 1..Len(xtz_events) :
                   (k < i \/ pc = "done") => HasPrice(xtz_events[k].timestamp)

\* ----------------------------------------------------------------- C10
\* quantity a day bucket holds
BucketQty(bucket) == SumSeq([k \in 1..Len(bucket) |-> bucket[k].qty])

BucketOf(day) == IF day \in DOMAIN acq_by_day THEN acq_by_day[day] ELSE <<>>

\* sum of take_qty * cost_per_gbp over entries that name an acquisition
EntryCost(entries) ==
    SumSeq([k \in 1..Len(entries) |-> entries[k].take_qty * entries[k].cost_per_gbp])

\* the second pass processes a disposal in this step
HmrcDisposalStep ==
    /\ pc = "hmrc"
    /\ i <= Len(xtz_events)
    /\ xtz_events[i].direction = "out"
    /\ Len(hmrc_disposals') = Len(hmrc_disposals) + 1

\* C10: a disposal takes from the bucket of its own day first, oldest
\* first, as much as the bucket holds up to the quantity disposed; 30-day
\* entries follow the same-day entries and exist only when the bucket could
\* not cover the disposal; a disposal the bucket covers has the cost of the
\* same-day acquisitions it took, whatever later acquisitions cost.
C10_SameDayFirst ==
    [][HmrcDisposalStep =>
        LET e == xtz_events[i]
            bucket == BucketOf(DayOf(e.timestamp))
            row == hmrc_disposals'[Len(hmrc_disposals')]
            sd == SelectSeq(row.matching_breakdown, IsSameDay)
            th == SelectSeq(row.matching_breakdown, Is30Day)
            pl == SelectSeq(row.matching_breakdown, IsPool)
        IN  /\ SumTake(sd) = Min(e.quantity, BucketQty(bucket))
            /\ row.matching_breakdown = sd \o th \o pl
            /\ \A k \in 1..Len(sd) :
                   /\ sd[k].from_acq_ts = bucket[k].ts
                   /\ sd[k].cost_per_gbp = bucket[k].cost_per
                   /\ k < Len(sd) => sd[k].take_qty = bucket[k].qty
            /\ th # <<>> => BucketQty(bucket) < e.quantity
            /\ BucketQty(bucket) >= e.quantity =>
                   row.allowable_cost_gbp_est = FInt(EntryCost(sd))
    ]_vars

\* a disposal matched wholly to a same-day acquisition of equal quantity
\* while a cheaper acquisition inside its 30-day window has quantity left
C10_Witness ==
    \E k \in 1..Len(hmrc_disposals) : \E j \in 1..Len(future_acqs) :
        LET row == hmrc_disposals[k]
            a == future_acqs[j]
        IN  /\ Len(row.matching_breakdown) = 1
            /\ IsSameDay(row.matching_breakdown[1])
            /\ row.matching_breakdown[1].take_qty = row.qty_disposed
            /\ AcquiredAt(row.matching_breakdown[1].from_acq_ts) = row.qty_disposed
            /\ Eligible(a, row.timestamp)
            /\ DayOf(a.dt) > DayOf(row.timestamp)
            /\ a.cost_per < row.matching_breakdown[1].cost_per_gbp
            /\ row.allowable_cost_gbp_est =
                   FInt(row.qty_disposed * row.matching_breakdown[1].cost_per_gbp)

\* ----------------------------------------------------------------- C11
\* classify_irs processes a disposal in this step
FifoDisposalStep ==
    /\ pc = "irs"
    /\ i <= Len(events)
    /\ Len(irs_disposals') = Len(irs_disposals) + 1

\* the queue after the first n lots were taken from, the n-th by take
QueueAfter(lots, n, take) ==
    IF n > 0 /\ take < lots[n].qty
    THEN <<[lots[n] EXCEPT !.qty = lots[n].qty - take]>> \o SubSeq(lots, n + 1, Len(lots))
    ELSE SubSeq(lots, n + 1, Len(lots))

\* C11: the queue is in ascending acquired_ts order and holds no emptied
\* lot; over the run the lots are taken from in ascending acquired_ts
\* order; a disposal takes from the lots at the head of the queue in queue
\* order, each but the last one taken from is emptied and removed, and the
\* rest of the queue is left as it was.
C11_FifoHeadFirst ==
    /\ [](/\ \A k \in 1..(Len(xtz_lots) - 1) :
                 xtz_lots[k].acquired_ts <= xtz_lots[k + 1].acquired_ts
          /\ \A k \in 1..Len(xtz_lots) : xtz_lots[k].qty > 0
          /\ LET taken == LotBreakdowns(irs_disposals)
             IN  \A k \in 1..(Len(taken) - 1) :
                     taken[k].from_lot_acquired_ts <= taken[k + 1].from_lot_acquired_ts)
    /\ [][FifoDisposalStep =>
            LET bd == irs_disposals'[Len(irs_disposals')].lot_breakdown
                n == Len(bd)
            IN  /\ n <= Len(xtz_lots)
                /\ \A k \in 1..n :
                       /\ bd[k].from_lot_acquired_ts = xtz_lots[k].acquired_ts
                       /\ bd[k].basis_per_usd = xtz_lots[k].basis_per
                       /\ bd[k].take_qty <= xtz_lots[k].qty
                       /\ k < n => bd[k].take_qty = xtz_lots[k].qty
                /\ xtz_lots' = QueueAfter(xtz_lots, n, IF n > 0 THEN bd[n].take_qty ELSE 0)
       ]_vars

\* a disposal that emptied the head lot and took part of the next one
C11_Witness ==
    /\ irs_disposals # <<>>
    /\ Len(irs_disposals[Len(irs_disposals)].lot_breakdown) = 2
    /\ xtz_lots # <<>>
    /\ xtz_lots[1].acquired_ts =
           irs_disposals[Len(irs_disposals)].lot_breakdown[2].from_lot_acquired_ts

\* ----------------------------------------------------------------- C12
\* a FIFO record whose disposal the lots did not cover
OverDisposed(r) == SumTake(r.lot_breakdown) < r.qty_disposed

\* sum(take * lot.basis_per) over the lots a disposal took from
BasisOfLots(bd) == SumSeq([k \in 1..Len(bd) |-> bd[k].take_qty * bd[k].basis_per_usd])

\* the events classify_irs writes a disposal record for
IsFifoDisposal(e) == e.asset = "XTZ" /\ e.direction = "out" /\ e.quantity > 0

\* C12: a FIFO over-disposal does not abort the run; its record has
\* proceeds = quantity * price of the disposal day, basis = the sum of
\* take * unit cost over the lots taken from (0 when there was none) and
\* gain = proceeds - basis; the events after it are processed: when
\* classify_irs has returned, the ledger has a row for every event and
\* there is a record for every disposal.
C12_OverDisposalGoesOn ==
    /\ pc # "aborted"
    /\ \A k \in 1..Len(irs_disposals) :
           LET r == irs_disposals[k]
           IN  OverDisposed(r) =>
                   /\ r.fmv_usd_per_xtz_used = market[DayOf(r.timestamp)].value
                   /\ r.proceeds_usd_est = r.qty_disposed * r.fmv_usd_per_xtz_used
                   /\ r.basis_usd_fifo_est = BasisOfLots(r.lot_breakdown)
                   /\ r.gain_usd_est = r.proceeds_usd_est - r.basis_usd_fifo_est
                   /\ r.lot_breakdown = <<>> =>
                          r.basis_usd_fifo_est = 0 /\ r.gain_usd_est = r.proceeds_usd_est
    /\ pc = "irs" => Len(ledger) = i - 1
    /\ pc \notin {"build", "irs"} =>
           /\ Len(ledger) = Len(events)
           /\ Len(irs_disposals) = Len(SelectSeq(events, IsFifoDisposal))

\* a disposal the lots covered only in part, and a record written after it
C12_Witness ==
    /\ Len(irs_disposals) >= 2
    /\ OverDisposed(irs_disposals[1])
    /\ irs_disposals[1].lot_breakdown # <<>>
    /\ irs_disposals[1].basis_usd_fifo_est > 0
    /\ pc = "done"

\* ----------------------------------------------------------------- C13
\* C13: when the engines are called a second time on the same events with
\* the same prices, each returns the sequence of disposal records it
\* returned the first time: the same records with the same breakdowns in
\* the same order.
C13_RerunSameRecords ==
    /\ (run = 2 /\ pc \notin {"build", "irs"}) => irs_disposals = first_irs
    /\ (run = 2 /\ pc = "done") => hmrc_disposals = first_hmrc

\* a second call has returned records with FIFO lots, a 30-day match and a
\* pool match in them
C13_Witness ==
    /\ run = 2
    /\ pc = "done"
    /\ LotBreakdowns(first_irs) # <<>>
    /\ \E k \in 1..Len(Breakdowns(first_hmrc)) : Is30Day(Breakdowns(first_hmrc)[k])
    /\ \E k \in 1..Len(Breakdowns(first_hmrc)) : IsPool(Breakdowns(first_hmrc)[k])

\* ----------------------------------------------------------------- C14
\* the acquisitions among evs, in the order of evs
IsAcquisition(e) == e.asset = "XTZ" /\ e.direction = "in" /\ e.quantity > 0
Acquisitions(evs) == SelectSeq(evs, IsAcquisition)

\* evs holds the events of raw in timestamp order, events with the same
\* timestamp in the order they were discovered in (op_hash is the position
\* in raw)
InDiscoveryOrder(evs) ==
    /\ Len(evs) = Len(raw)
    /\ \A k \in 1..Len(raw) : \E l \in 1..Len(evs) : evs[l] = raw[k]
    /\ \A k \in 1..Len(evs) : \A l \in (k + 1)..Len(evs) :
           \/ evs[k].timestamp < evs[l].timestamp
           \/ evs[k].timestamp = evs[l].timestamp /\ evs[k].op_hash < evs[l].op_hash

\* lots are the last acquisitions of acqs in the order of acqs, the head
\* lot possibly taken from
LotsFollow(lots, acqs) ==
    /\ Len(lots) <= Len(acqs)
    /\ LET off == Len(acqs) - Len(lots)
       IN  \A k \in 1..Len(lots) :
               /\ lots[k].acquired_ts = acqs[off + k].timestamp
               /\ IF k = 1 THEN lots[k].qty <= acqs[off + k].quantity
                  ELSE lots[k].qty = acqs[off + k].quantity

\* bucket holds the acquisitions acqs in the order of acqs
BucketFollows(bucket, acqs) ==
    /\ Len(bucket) = Len(acqs)
    /\ \A k \in 1..Len(bucket) :
           bucket[k].ts = acqs[k].timestamp /\ bucket[k].qty = acqs[k].quantity

\* C14: the events both engines process are in timestamp order with equal
\* timestamps in discovery order; the FIFO queue holds the acquisitions
\* processed so far in that order, and so does every day bucket when the
\* first pass of the UK engine fills it.
C14_TiesInDiscoveryOrder ==
    /\ pc # "build" => InDiscoveryOrder(events)
    /\ pc = "irs" => LotsFollow(xtz_lots, Acquisitions(SubSeq(events, 1, i - 1)))
    /\ pc \in {"hmrc_index", "hmrc", "done"} =>
           xtz_events = SelectSeq(events, LAMBDA e : e.asset = "XTZ" /\ e.quantity > 0)
    /\ pc = "hmrc_index" =>
           \A d \in Days :
               BucketFollows(BucketOf(d),
                   SelectSeq(Acquisitions(SubSeq(xtz_events, 1, i - 1)),
                             LAMBDA e : DayOf(e.timestamp) = d))

\* two acquisitions with one timestamp and different quantities, from a
\* list that was not in timestamp order, both in the queue and the bucket
C14_Witness ==
    /\ ~IsSorted(raw)
    /\ pc = "hmrc_index"
    /\ i > Len(xtz_events)
    /\ Len(xtz_lots) = 2
    /\ xtz_lots[1].acquired_ts = xtz_lots[2].acquired_ts
    /\ xtz_lots[1].qty # xtz_lots[2].qty
    /\ Len(BucketOf(0)) = 2
    /\ BucketOf(0)[1].qty # BucketOf(0)[2].qty

\* ----------------------------------------------------------------- C15
\* rows has one row for each event of evs, in the order of evs
OneRowEach(rows, evs) ==
    /\ Len(rows) = Len(evs)
    /\ \A k \in 1..Len(rows) :
           /\ rows[k].op_hash = evs[k].op_hash
           /\ rows[k].timestamp = evs[k].timestamp

\* C15: the run comes to its end, and then each engine has processed every
\* event once (one ledger row per event, in event order) and has written
\* one disposal record for each dispose event of quantity > 0, in event
\* order, and none for an acquire event or an event of quantity 0.
C15_OneRecordPerDisposal ==
    /\ <>(pc = "done")
    /\ [](pc = "done" =>
            /\ OneRowEach(ledger, events)
            /\ OneRowEach(irs_disposals, SelectSeq(events, IsFifoDisposal))
            /\ OneRowEach(hmrc_disposals, SelectSeq(events, IsFifoDisposal))
            /\ \A k \in 1..Len(irs_disposals) : irs_disposals[k].qty_disposed > 0
            /\ \A k \in 1..Len(hmrc_disposals) : hmrc_disposals[k].qty_disposed > 0)

\* a finished run over an acquisition, a disposal of quantity 0 and a
\* disposal of quantity 1
C15_Witness ==
    /\ pc = "done"
    /\ Len(events) = 3
    /\ \E k \in 1..3 : events[k].direction = "in" /\ events[k].quantity > 0
    /\ \E k \in 1..3 : events[k].direction = "out" /\ events[k].quantity = 0
    /\ Len(irs_disposals) = 1
    /\ Len(hmrc_disposals) = 1

\* ----------------------------------------------------------------- C16
\* every price of the cache is still there, unchanged, after the step
CacheKept(cache, cacheNext) ==
    \A d \in DOMAIN cache : d \in DOMAIN cacheNext /\ cacheNext[d] = cache[d]

\* the price the cache holds for the day of ts
CachedFor(cache, ts) ==
    IF DayOf(ts) \in DOMAIN cache THEN cache[DayOf(ts)] ELSE -1

\* C16: an oracle answers every lookup for a day with the first value it
\* obtained for that day: a cached price never changes, and every lot,
\* bucket entry, lookahead entry, record and breakdown entry is valued at
\* the cached price of the calendar day of its event, whatever its hour.
C16_OnePricePerDay ==
    /\ [][CacheKept(usd_cache, usd_cache') /\ CacheKept(gbp_cache, gbp_cache')]_vars
    /\ [](/\ \A k \in 1..Len(xtz_lots) :
                 xtz_lots[k].basis_per = CachedFor(usd_cache, xtz_lots[k].acquired_ts)
          /\ \A k \in 1..Len(irs_disposals) :
                 irs_disposals[k].fmv_usd_per_xtz_used =
                     CachedFor(usd_cache, irs_disposals[k].timestamp)
          /\ LET bd == LotBreakdowns(irs_disposals)
             IN  \A k \in 1..Len(bd) :
                     bd[k].basis_per_usd = CachedFor(usd_cache, bd[k].from_lot_acquired_ts)
          /\ \A d \in DOMAIN acq_by_day : \A k \in 1..Len(acq_by_day[d]) :
                 acq_by_day[d][k].cost_per = CachedFor(gbp_cache, acq_by_day[d][k].ts)
          /\ \A k \in 1..Len(future_acqs) :
                 future_acqs[k].cost_per = CachedFor(gbp_cache, future_acqs[k].ts)
          /\ \A k \in 1..Len(hmrc_disposals) :
                 hmrc_disposals[k].fmv_gbp_per_xtz_used =
                     CachedFor(gbp_cache, hmrc_disposals[k].timestamp)
          /\ LET bd == Breakdowns(hmrc_disposals)
             IN  \A k \in 1..Len(bd) :
                     NamesAcquisition(bd[k]) =>
                         bd[k].cost_per_gbp = CachedFor(gbp_cache, bd[k].from_acq_ts))

\* a finished run with two events at different hours of a day whose price
\* moved during the run: the two oracles hold different prices for it
C16_Witness ==
    /\ pc = "done"
    /\ \E d \in DOMAIN usd_cache \cap DOMAIN gbp_cache :
           /\ usd_cache[d] # gbp_cache[d]
           /\ \E k, l \in 1..Len(xtz_events) :
                  /\ DayOf(xtz_events[k].timestamp) = d
                  /\ DayOf(xtz_events[l].timestamp) = d
                  /\ xtz_events[k].timestamp # xtz_events[l].timestamp
    /\ irs_disposals # <<>>
    /\ hmrc_disposals # <<>>

\* ----------------------------------------------------------------- C17
\* the second pass processes an acquisition in this step
HmrcAcquisitionStep ==
    /\ pc = "hmrc"
    /\ i <= Len(xtz_events)
    /\ xtz_events[i].direction = "in"
    /\ i' = i + 1

\* what a disposal record leaves to the pool: the quantity disposed less
\* the quantity of its same-day and 30-day entries
LeftToPool(row) ==
    row.qty_disposed - SumTake(SelectSeq(row.matching_breakdown, NamesAcquisition))

\* C17: in the second pass of the UK engine an acquisition adds its
\* quantity to pool_qty and quantity * price to pool_cost_gbp and changes
\* nothing else; a disposal changes the pool only by taking what its
\* same-day and 30-day matches left from pool_qty, and that quantity at
\* the average cost from pool_cost_gbp.
C17_PoolFrame ==
    [][/\ HmrcAcquisitionStep =>
            LET e == xtz_events[i]
            IN  /\ pool_qty' = pool_qty + e.quantity
                /\ pool_cost_gbp' =
                       FAdd(pool_cost_gbp,
                            FInt(e.quantity * CachedFor(gbp_cache, e.timestamp)))
                /\ UNCHANGED <<acq_by_day, future_acqs, hmrc_disposals, xtz_events,
                               gbp_cache>>
       /\ HmrcDisposalStep =>
            LET left == LeftToPool(hmrc_disposals'[Len(hmrc_disposals')])
            IN  IF left > 0 /\ pool_qty > 0
                THEN /\ pool_qty' = pool_qty - left
                     /\ pool_cost_gbp' =
                            FSub(pool_cost_gbp,
                                 FMul(FInt(left), FDiv(pool_cost_gbp, FInt(pool_qty))))
                ELSE UNCHANGED <<pool_qty, pool_cost_gbp>>
    ]_vars

\* a disposal took from a same-day acquisition and from the pool, and the
\* pool still holds quantity after it
C17_Witness ==
    /\ hmrc_disposals # <<>>
    /\ LET bd == hmrc_disposals[Len(hmrc_disposals)].matching_breakdown
       IN  /\ \E k \in 1..Len(bd) : IsSameDay(bd[k])
           /\ \E k \in 1..Len(bd) : IsPool(bd[k])
    /\ pool_qty > 0

\* ----------------------------------------------------------------- C18
\* the denominator of a fraction: 0 only after a division by zero
Defined(x) == x[2] > 0

\* C18: a disposal processed while pool_qty is 0 or less computes no
\* average cost: its record has no pool entry, its allowable cost is the
\* cost of its same-day and 30-day entries alone, and pool_qty and
\* pool_cost_gbp stay as they were; every average cost, pool cost,
\* allowable cost and gain of the run is the result of a division by a
\* quantity greater than 0.
C18_NoAverageOfEmptyPool ==
    /\ [][(HmrcDisposalStep /\ pool_qty <= 0) =>
            LET row == hmrc_disposals'[Len(hmrc_disposals')]
                bd == row.matching_breakdown
            IN  /\ \A k \in 1..Len(bd) : ~IsPool(bd[k])
                /\ row.allowable_cost_gbp_est =
                       FInt(EntryCost(SelectSeq(bd, NamesAcquisition)))
                /\ UNCHANGED <<pool_qty, pool_cost_gbp>>
       ]_vars
    /\ [][HmrcDisposalStep =>
            LET bd == hmrc_disposals'[Len(hmrc_disposals')].matching_breakdown
            IN  \A k \in 1..Len(bd) :
                    IsPool(bd[k]) =>
                        /\ pool_qty > 0
                        /\ bd[k].avg_cost_per_gbp = FDiv(pool_cost_gbp, FInt(pool_qty))
       ]_vars
    /\ [](/\ Defined(pool_cost_gbp)
          /\ \A k \in 1..Len(hmrc_disposals) :
                 /\ Defined(hmrc_disposals[k].allowable_cost_gbp_est)
                 /\ Defined(hmrc_disposals[k].gain_gbp_est)
          /\ LET bd == Breakdowns(hmrc_disposals)
             IN  \A k \in 1..Len(bd) : IsPool(bd[k]) => Defined(bd[k].avg_cost_per_gbp))

\* a disposal was processed with quantity left for the pool while the
\* pool was empty or overdrawn, after an earlier disposal had taken from it
C18_Witness ==
    /\ Len(hmrc_disposals) = 2
    /\ \E k \in 1..Len(hmrc_disposals[1].matching_breakdown) :
           IsPool(hmrc_disposals[1].matching_breakdown[k])
    /\ hmrc_disposals[2].matching_breakdown = <<>>
    /\ hmrc_disposals[2].allowable_cost_gbp_est = FInt(0)
    /\ pool_qty <= 0

\* ----------------------------------------------------------------- C19
\* the events are: acquire 10 on the first morning, dispose 4 on the second
AcquireTenDisposeFour ==
    /\ Len(events) = 2
    /\ events[1].direction = "in" /\ events[1].quantity = 10
    /\ events[1].timestamp = 9
    /\ events[2].direction = "out" /\ events[2].quantity = 4
    /\ events[2].timestamp = HoursPerDay + 9

\* C19: a FIFO disposal of less than the head lot holds leaves the head
\* lot at the head with its quantity reduced by the quantity disposed and
\* its unit cost unchanged, and leaves every other lot as and where it
\* was; acquire 10 at 2, then dispose 4 at 5 gives proceeds 20, basis 8,
\* gain 12 and one lot of 6 at 2.
C19_PartialHeadLot ==
    /\ [][(FifoDisposalStep /\ xtz_lots # <<>> /\ events[i].quantity < xtz_lots[1].qty) =>
            /\ xtz_lots' = [xtz_lots EXCEPT ![1].qty = xtz_lots[1].qty - events[i].quantity]
            /\ irs_disposals'[Len(irs_disposals')].lot_breakdown =
                   <<[from_lot_acquired_ts |-> xtz_lots[1].acquired_ts,
                      take_qty |-> events[i].quantity,
                      basis_per_usd |-> xtz_lots[1].basis_per]>>
       ]_vars
    /\ []((AcquireTenDisposeFour /\ pc \notin {"build", "irs"}) =>
            /\ Len(irs_disposals) = 1
            /\ irs_disposals[1].proceeds_usd_est = 20
            /\ irs_disposals[1].basis_usd_fifo_est = 8
            /\ irs_disposals[1].gain_usd_est = 12
            /\ xtz_lots = <<[acquired_ts |-> 9, qty |-> 6, basis_per |-> 2]>>)

\* the run over acquire 10 at 2, dispose 4 at 5 is over: the disposal took
\* 4 from the lot of 10
C19_Witness ==
    /\ AcquireTenDisposeFour
    /\ pc = "done"
    /\ Len(irs_disposals) = 1
    /\ irs_disposals[1].lot_breakdown # <<>>
    /\ irs_disposals[1].lot_breakdown[1].take_qty = 4
    /\ Len(xtz_lots) = 1
\* ----------------------------------------------------------------- C20
\* C20: the quantity left of every acquisition in the 30-day lookahead
\* list is never below 0, acquisitions that share a timestamp included.
C20_LookaheadNonNegative ==
    \A k \in 1..Len(future_acqs) : future_acqs[k].qty >= 0

\* ----------------------------------------------------------------- C21
\* a UK record whose disposal the same-day rule covered
FullySameDay(r) ==
    SumTake(SelectSeq(r.matching_breakdown, IsSameDay)) = r.qty_disposed

\* C21: in every UK record a same-day entry has the unit cost the record
\* has as unit price, and a disposal the same-day rule covered has an
\* allowable cost equal to its proceeds and a gain of 0.
C21_SameDayAtOwnPrice ==
    \A k \in 1..Len(hmrc_disposals) :
        LET r == hmrc_disposals[k]
            bd == r.matching_breakdown
        IN  /\ \A j \in 1..Len(bd) :
                   IsSameDay(bd[j]) => bd[j].cost_per_gbp = r.fmv_gbp_per_xtz_used
            /\ FullySameDay(r) =>
                   /\ r.allowable_cost_gbp_est = FInt(r.proceeds_gbp_est)
                   /\ r.gain_gbp_est = FInt(0)

\* a disposal covered by an acquisition of an earlier hour of its day, on
\* a day whose price moved during the run
C21_Witness ==
    /\ pc = "done"
    /\ \E k \in 1..Len(hmrc_disposals) :
           LET r == hmrc_disposals[k]
           IN  /\ FullySameDay(r)
               /\ r.matching_breakdown[1].from_acq_ts < r.timestamp
               /\ r.proceeds_gbp_est > 0
               /\ market[DayOf(r.timestamp)].value # r.fmv_gbp_per_xtz_used

\* ----------------------------------------------------------------- C22
\* the two records are for the same event and the same quantity
SameDisposal(r, u) ==
    /\ r.op_hash = u.op_hash
    /\ r.timestamp = u.timestamp
    /\ r.qty_disposed = u.qty_disposed

\* C22: when both engines have run over the events, the k-th FIFO record
\* and the k-th UK record are for the same event and the same quantity
\* disposed, and the events with a record are, in event order, the XTZ
\* events going out with quantity > 0.
C22_SameDisposalsBothEngines ==
    pc = "done" =>
        LET outs == SelectSeq(events, IsFifoDisposal)
        IN  /\ Len(irs_disposals) = Len(hmrc_disposals)
            /\ Len(irs_disposals) = Len(outs)
            /\ \A k \in 1..Len(irs_disposals) :
                   /\ SameDisposal(irs_disposals[k], hmrc_disposals[k])
                   /\ irs_disposals[k].op_hash = outs[k].op_hash
                   /\ irs_disposals[k].qty_disposed = outs[k].quantity

\* a finished run over a token going out, an XTZ event of quantity 0 going
\* out and an XTZ disposal: one record in each engine
C22_Witness ==
    /\ pc = "done"
    /\ Len(events) = 3
    /\ \E k \in 1..3 : events[k].asset = "TOK" /\ events[k].direction = "out"
                        /\ events[k].quantity > 0
    /\ \E k \in 1..3 : events[k].asset = "XTZ" /\ events[k].direction = "out"
                        /\ events[k].quantity = 0
    /\ Len(irs_disposals) = 1
    /\ Len(hmrc_disposals) = 1

\* ----------------------------------------------------------------- C23
\* classify_irs processes an event of another asset than XTZ in this step
TokenStep ==
    /\ pc = "irs"
    /\ i <= Len(events)
    /\ events[i].asset # "XTZ"

\* C23: the step of classify_irs over an event of another asset changes
\* no lot, no disposal record and no cached price; no such event is among
\* the events the UK engine works on; and both engines return the same
\* disposal records and are left with the same lots, day buckets, lookahead
\* list and pool when they are run on the events without those events.
C23_TokensAsIfAbsent ==
    /\ [][TokenStep => UNCHANGED <<xtz_lots, irs_disposals, usd_cache, hmrcVars>>]_vars
    /\ [](/\ \A k \in 1..Len(xtz_events) : xtz_events[k].asset = "XTZ"
          /\ (run = 2 /\ pc = "done") =>
                 /\ irs_disposals = first_irs
                 /\ hmrc_disposals = first_hmrc
                 /\ LeftBehind = first_left)

\* the second run is over; the first ran over a token event of quantity 1
\* coming in before an XTZ disposal, and left records, a lot and a bucket
C23_Witness ==
    /\ run = 2
    /\ pc = "done"
    /\ \E k \in 1..Len(raw) : \E l \in (k + 1)..Len(raw) :
           /\ raw[k].asset = "TOK" /\ raw[k].direction = "in" /\ raw[k].quantity > 0
           /\ IsFifoDisposal(raw[l])
    /\ first_irs # <<>>
    /\ first_hmrc # <<>>
    /\ first_left.future_acqs # <<>>

=============================================================================
